---- MODULE Spec2Model ----
(***************************************************************************)
(* Session/channel lifecycle and request correlation of the MCP web-search *)
(* server (src/unnamed/part_000, the per-session API key variant; the      *)
(* transports handling of src/server.ts is the same code).                 *)
(*                                                                         *)
(* Node runs the handlers on one thread: each action below is the          *)
(* synchronous run of one handler between two suspension points.           *)
(*                                                                         *)
(* All JavaScript values are strings or records here:                      *)
(*   - a sessionId is a string; Undefined stands for undefined, which is   *)
(*     also the property name JavaScript uses when undefined is a key;     *)
(*   - transports and sessionApiKeys are plain objects ({}): a property    *)
(*     read finds own properties first and members inherited from          *)
(*     Object.prototype ("constructor", ...) next.                         *)
(*                                                                         *)
(* The program creates one McpServer and calls server.connect(transport)   *)
(* for every GET /sse.  The server object keeps one transport: connect     *)
(* replaces it, the closing of any connected transport clears it, and the  *)
(* extra.sessionId a tool handler receives is the sessionId of the         *)
(* transport the server holds when the request is dispatched.              *)
(* serverTransport is that field.                                          *)
(*                                                                         *)
(* Four specifications: Spec is the server as clients drive it; SpecBridge *)
(* calls the search_web handler with any extra.sessionId; SpecRegistry     *)
(* serves GET /sse with a transport of any sessionId; SpecEnv calls the    *)
(* search_web handler of src/server.ts, which takes its key from the       *)
(* process environment.                                                    *)
(***************************************************************************)
EXTENDS Integers, Sequences, FiniteSets, Bags, TLC

VARIABLES
    transports,       \* part_000:83   { [sessionId]: SSEServerTransport }
    sessionApiKeys,   \* part_000:14   { [sessionId]: string }
    serverTransport,  \* part_000:8    the transport the single McpServer is connected to
    sseLog,           \* history: the GET /sse requests served, in order
    closeCount,       \* history: deliveries of res "close" per session
    requests          \* history and task state: the bag of POST /messages requests and
                      \* tool invocations, each with the position its handler has reached

vars == <<transports, sessionApiKeys, serverTransport, sseLog, closeCount, requests>>

----------------------------------------------------------------------------
(* Bounds                                                                  *)

MaxSessions == 2   \* GET /sse requests in a run
MaxEvents == 5     \* requests and stream closures the server receives in a run

----------------------------------------------------------------------------
(* Values                                                                  *)

Undefined == "undefined"
EmptyString == ""
\* a property every plain object inherits (Object.prototype.constructor)
ProtoKey == "constructor"
ProtoKeys == {ProtoKey}
\* what reading an inherited member yields (a function object: truthy)
InheritedMember == "[Function: Object]"

\* the values crypto.randomUUID() can return, part_000:89
SessionIds == {ToString(i) : i \in 1 .. MaxSessions}

\* req.headers['x-serper-api-key'], part_000:87
ApiKeyHeaders == {Undefined, EmptyString, "k1", "k2"}

\* req.query.sessionId, part_000:106
ClaimedSessionIds == SessionIds \cup {Undefined, EmptyString, ProtoKey}

\* extra.sessionId as a caller of the tool handler can set it, part_000:24
ExtraSessionIds == SessionIds \cup {Undefined, EmptyString, ProtoKey}

\* args.query
Queries == {"q"}

\* JavaScript truthiness of a string-or-undefined value
Falsy(v) == v = Undefined \/ v = EmptyString

\* the values of transports: a transport object, undefined, an inherited member
NoTransport == [kind |-> "undefined"]
InheritedObject == [kind |-> "Function"]
\* new SSEServerTransport("/messages", res), part_000:89; res is named by the
\* position of its GET /sse among the requests served
NewTransport(id, res) == [kind |-> "SSEServerTransport", sessionId |-> id, res |-> res]
IsTransport(t) == t.kind = "SSEServerTransport"
TruthyObject(t) == t.kind # "undefined"

----------------------------------------------------------------------------
(* Plain-object operations                                                 *)

\* Faulty variant: an assignment that keeps an existing property.
PutIfAbsent(obj, key, value) ==
    [k \in DOMAIN obj \cup {key} |->
        IF k = key /\ key \notin DOMAIN obj THEN value ELSE obj[k]]

\* obj[key] = value
Put(obj, key, value) ==
    [k \in DOMAIN obj \cup {key} |-> IF k = key THEN value ELSE obj[k]]

\* delete obj[key]: removes an own property, no-op when there is none
Delete(obj, key) == [k \in DOMAIN obj \ {key} |-> obj[k]]

\* transports[key]
GetTransport(obj, key) ==
    IF key \in DOMAIN obj THEN obj[key]
    ELSE IF key \in ProtoKeys THEN InheritedObject
    ELSE NoTransport

\* sessionApiKeys[key]
GetApiKey(obj, key) ==
    IF key \in DOMAIN obj THEN obj[key]
    ELSE IF key \in ProtoKeys THEN InheritedMember
    ELSE Undefined

\* the entry a session has in sessionApiKeys, Absent when it has none
Absent == "<absent>"
OwnApiKey(obj, key) == IF key \in DOMAIN obj THEN obj[key] ELSE Absent

\* the sessionIds minted so far
Minted == {sseLog[i].sessionId : i \in DOMAIN sseLog}

\* the transport object the GET /sse of session id created
Transport(id) ==
    NewTransport(id, CHOOSE j \in DOMAIN sseLog : sseLog[j].sessionId = id)

----------------------------------------------------------------------------
(* The external search collaborator (axios.post to serper.dev)             *)

ResultA == [title |-> "A", link |-> "http://a", snippet |-> "s"]
ResultB == [title |-> "B", link |-> "http://b", snippet |-> "t"]

\* what the awaited axios.post can produce: a 2xx response whose data.organic
\* is an array, or is missing, or is a value that is no array (a non-empty
\* string); or a rejection (no response, or a status outside 2xx)
CollaboratorResponses ==
    { [kind |-> "2xx", organic |-> "array", items |-> o] :
          o \in {<<>>, <<ResultA>>, <<ResultB, ResultA>>} }
    \cup { [kind |-> "2xx", organic |-> "missing", items |-> <<>>],
           [kind |-> "2xx", organic |-> "not_array", items |-> <<>>],
           [kind |-> "network_error", organic |-> "missing", items |-> <<>>],
           [kind |-> "non_2xx", organic |-> "missing", items |-> <<>>] }

\* the answers tried against the whole server, where what matters is that the
\* call settles and when: one fulfilment and one rejection
SettledResponses ==
    { [kind |-> "2xx", organic |-> "array", items |-> <<ResultA>>],
      [kind |-> "network_error", organic |-> "missing", items |-> <<>>] }

\* no response yet
NoResponse == [kind |-> "none", organic |-> "missing", items |-> <<>>]

\* the responses on which the handler's try block throws
IsFailure(resp) ==
    \/ resp.kind \in {"network_error", "non_2xx"}
    \/ resp.kind = "2xx" /\ resp.organic = "not_array"

----------------------------------------------------------------------------
(* search_web handler, part_000:21-78 (141-215 is the same with logging)   *)

MissingSessionText == <<"Error: Internal server error (missing session ID).">>
NotConfiguredText ==
    <<"Error: API key not configured for this session. Please ensure X-Serper-Api-Key header was sent on connection.">>
SearchFailedText == <<"Error: Could not complete the search.">>

\* return { content: [{ type: "text", text }] }; text is kept as its lines
Envelope(text) ==
    [outcome |-> "returned", content |-> <<[type |-> "text", text |-> text]>>]
\* the handler's promise rejects
Thrown == [outcome |-> "thrown", content |-> <<>>]
NoResult == [outcome |-> "pending", content |-> <<>>]

\* Faulty variant: entries numbered with the forEach index itself.
RECURSIVE OrganicLinesZeroBased(_, _)
OrganicLinesZeroBased(items, index) ==
    IF items = <<>> THEN <<>>
    ELSE << ToString(index) \o ". " \o Head(items).title,
            "   " \o Head(items).link,
            "   " \o Head(items).snippet,
            "" >>
         \o OrganicLinesZeroBased(Tail(items), index + 1)

\* lines 62-66: the forEach over response.data.organic, index from 0
RECURSIVE OrganicLines(_, _)
OrganicLines(items, index) ==
    IF items = <<>> THEN <<>>
    ELSE << ToString(index + 1) \o ". " \o Head(items).title,
            "   " \o Head(items).link,
            "   " \o Head(items).snippet,
            "" >>
         \o OrganicLines(Tail(items), index + 1)

\* lines 57-67
ResultText(query, resp) ==
    <<"Search results for: " \o query, "">>
    \o (IF resp.organic = "array"
        THEN <<"Web Results:">> \o OrganicLines(resp.items, 0)
        ELSE <<>>)

\* Faulty variant: the credential check written as apiKey === undefined, so
\* an empty credential passes it.
SearchWebStartUndefinedOnly(sessionId, store) ==
    IF Falsy(sessionId)
    THEN [pc |-> "done", apiKey |-> Undefined, collabCalls |-> 0,
          result |-> Envelope(MissingSessionText)]
    ELSE LET apiKey == GetApiKey(store, sessionId) IN
         IF apiKey = Undefined
         THEN [pc |-> "done", apiKey |-> apiKey, collabCalls |-> 0,
               result |-> Envelope(NotConfiguredText)]
         ELSE [pc |-> "calling", apiKey |-> apiKey, collabCalls |-> 1,
               result |-> NoResult]

\* Faulty variant: the session check written as sessionId === undefined, so
\* an empty sessionId passes it.
SearchWebStartEmptySessionPasses(sessionId, store) ==
    IF sessionId = Undefined
    THEN [pc |-> "done", apiKey |-> Undefined, collabCalls |-> 0,
          result |-> Envelope(MissingSessionText)]
    ELSE LET apiKey == GetApiKey(store, sessionId) IN
         IF Falsy(apiKey)
         THEN [pc |-> "done", apiKey |-> apiKey, collabCalls |-> 0,
               result |-> Envelope(NotConfiguredText)]
         ELSE [pc |-> "calling", apiKey |-> apiKey, collabCalls |-> 1,
               result |-> NoResult]

\* lines 22-45: the handler up to its first suspension (await axios.post) or
\* its early return; store is sessionApiKeys at that moment
SearchWebStart(sessionId, store) ==
    IF Falsy(sessionId)
    THEN [pc |-> "done", apiKey |-> Undefined, collabCalls |-> 0,
          result |-> Envelope(MissingSessionText)]
    ELSE LET apiKey == GetApiKey(store, sessionId) IN
         IF Falsy(apiKey)
         THEN [pc |-> "done", apiKey |-> apiKey, collabCalls |-> 0,
               result |-> Envelope(NotConfiguredText)]
         ELSE [pc |-> "calling", apiKey |-> apiKey, collabCalls |-> 1,
               result |-> NoResult]

\* Faulty variant: no catch around the collaborator call.
SearchWebResumeNoCatch(query, resp) ==
    IF resp.kind = "2xx" /\ resp.organic # "not_array"
    THEN Envelope(ResultText(query, resp))
    ELSE Thrown

\* lines 56-77: the handler after axios.post settles; organic.forEach throws
\* inside the try when organic is truthy and no array
SearchWebResume(query, resp) ==
    IF resp.kind = "2xx" /\ resp.organic # "not_array"
    THEN Envelope(ResultText(query, resp))
    ELSE Envelope(SearchFailedText)

----------------------------------------------------------------------------
(* search_web handler of src/server.ts, lines 18-104: the variant that     *)
(* takes the key from process.env.SERPER_API_KEY                           *)

EnvKeyMissingText ==
    <<"Error: API key not found in environment variables. Please set SERPER_API_KEY.">>

\* process.env.SERPER_API_KEY, server.ts:21
EnvKeys == {Undefined, "k1"}

\* error.message of what the try block threw, server.ts:101: axios words it
\* after the failure (no response, the status code), the runtime words the
\* TypeError of forEach
ErrorMessage(resp) ==
    IF resp.kind = "network_error" THEN "Network Error"
    ELSE IF resp.kind = "non_2xx" THEN "Request failed with status code 500"
    ELSE "response.data.organic.forEach is not a function"

\* server.ts:19-51: up to await axios.post or the early return
EnvSearchWebStart(apiKey) ==
    IF Falsy(apiKey)
    THEN [pc |-> "done", apiKey |-> apiKey, collabCalls |-> 0,
          result |-> Envelope(EnvKeyMissingText)]
    ELSE [pc |-> "calling", apiKey |-> apiKey, collabCalls |-> 1,
          result |-> NoResult]

\* server.ts:56-75: "Web Results:" only when organic has elements
EnvResultText(query, resp) ==
    <<"Search results for: " \o query, "">>
    \o (IF resp.organic = "array" /\ Len(resp.items) > 0
        THEN <<"Web Results:">> \o OrganicLines(resp.items, 0)
        ELSE <<>>)

\* server.ts:53-103: after axios.post settles; the inner catch rethrows and
\* the outer catch returns the message with error.message appended
EnvSearchWebResume(query, resp) ==
    IF IsFailure(resp)
    THEN Envelope(<<"Error: Could not complete the search. Details: " \o ErrorMessage(resp)>>)
    ELSE Envelope(EnvResultText(query, resp))

----------------------------------------------------------------------------
(* State                                                                   *)

Init ==
    /\ transports = <<>>
    /\ sessionApiKeys = <<>>
    /\ serverTransport = Undefined
    /\ sseLog = <<>>
    /\ closeCount = [id \in SessionIds |-> 0]
    /\ requests = EmptyBag

\* deliveries of "close" to the streams of the sessions in S
RECURSIVE CloseDeliveries(_)
CloseDeliveries(S) ==
    IF S = {} THEN 0
    ELSE LET id == CHOOSE x \in S : TRUE IN closeCount[id] + CloseDeliveries(S \ {id})

\* what the server has received so far: GET /sse requests, "close" events,
\* POST /messages requests and tool calls
Events == Len(sseLog) + CloseDeliveries(SessionIds) + BagCardinality(requests)

\* Faulty variant: an identity generator that hands out again the sessionId
\* of a removed session.
NewSessionIdsReusing ==
    {ToString(i) : i \in {j \in 1 .. MaxSessions :
        /\ ToString(j) \notin DOMAIN transports
        /\ \A k \in 1 .. (j - 1) : ToString(k) \in DOMAIN transports}}

\* new SSEServerTransport mints its sessionId with randomUUID(): a value no
\* earlier call returned.  Which unused value it is makes no difference to
\* the server (it only compares sessionIds for equality), so the model takes
\* the first unused one.
NewSessionIds ==
    {ToString(i) : i \in {j \in 1 .. MaxSessions :
        /\ ToString(j) \notin Minted
        /\ \A k \in 1 .. (j - 1) : ToString(k) \in Minted}}

\* Faulty variant: line 92 without `|| ""`, storing the header as received.
ConnectStoresHeaderAsIs(id, header) ==
    /\ Events < MaxEvents
    /\ transports' = Put(transports, id, NewTransport(id, Len(sseLog) + 1))
    /\ sessionApiKeys' = Put(sessionApiKeys, id, header)
    /\ serverTransport' = id
    /\ sseLog' = Append(sseLog, [sessionId |-> id, header |-> header,
                                 replaced |-> (id \in DOMAIN transports)])
    /\ UNCHANGED <<closeCount, requests>>

\* Faulty variant: line 92 moved after `await server.connect(transport)`, so
\* the handler suspends with the transport registered and no credential.
ConnectRegistersOnly(id, header) ==
    /\ Events < MaxEvents
    /\ transports' = Put(transports, id, NewTransport(id, Len(sseLog) + 1))
    /\ serverTransport' = id
    /\ sseLog' = Append(sseLog, [sessionId |-> id, header |-> header,
                                 replaced |-> (id \in DOMAIN transports)])
    /\ UNCHANGED <<sessionApiKeys, closeCount, requests>>

\* Lines 87-102 for a transport whose sessionId is id.  server.connect(transport)
\* runs to the transport's start() without suspending and makes this
\* transport the one the shared server is connected to.  The history entry
\* notes whether transports had an entry for id already (replaced).
Connect(id, header) ==
    /\ Events < MaxEvents
    /\ transports' = Put(transports, id, NewTransport(id, Len(sseLog) + 1))
    /\ sessionApiKeys' = Put(sessionApiKeys, id, IF Falsy(header) THEN EmptyString ELSE header)
    /\ serverTransport' = id
    /\ sseLog' = Append(sseLog, [sessionId |-> id, header |-> header,
                                 replaced |-> (id \in DOMAIN transports)])
    /\ UNCHANGED <<closeCount, requests>>

\* app.get("/sse"), part_000:85-103
GetSse(id, header) ==
    /\ id \in NewSessionIds
    /\ Connect(id, header)

\* Faulty variant: the close handler without line 99 (as in src/server.ts,
\* which has no sessionApiKeys).
OnCloseKeepsApiKey(id) ==
    /\ id \in Minted
    /\ Events < MaxEvents
    /\ transports' = Delete(transports, id)
    /\ serverTransport' = Undefined
    /\ closeCount' = [closeCount EXCEPT ![id] = @ + 1]
    /\ UNCHANGED <<sessionApiKeys, sseLog, requests>>

\* Faulty variant: the close handler without line 98.
OnCloseKeepsTransport(id) ==
    /\ id \in Minted
    /\ Events < MaxEvents
    /\ sessionApiKeys' = Delete(sessionApiKeys, id)
    /\ serverTransport' = Undefined
    /\ closeCount' = [closeCount EXCEPT ![id] = @ + 1]
    /\ UNCHANGED <<transports, sseLog, requests>>

\* Faulty variant: the close handler resets both objects.
OnCloseAll(id) ==
    /\ id \in Minted
    /\ Events < MaxEvents
    /\ transports' = <<>>
    /\ sessionApiKeys' = <<>>
    /\ serverTransport' = Undefined
    /\ closeCount' = [closeCount EXCEPT ![id] = @ + 1]
    /\ UNCHANGED <<sseLog, requests>>

\* Faulty variant: the close handler reads the sessionId from a variable the
\* handlers share (the latest session) instead of from its own closure.
OnCloseLatest(id) ==
    /\ id \in Minted
    /\ Events < MaxEvents
    /\ LET latest == sseLog[Len(sseLog)].sessionId IN
         /\ transports' = Delete(transports, latest)
         /\ sessionApiKeys' = Delete(sessionApiKeys, latest)
    /\ serverTransport' = Undefined
    /\ closeCount' = [closeCount EXCEPT ![id] = @ + 1]
    /\ UNCHANGED <<sseLog, requests>>

\* Faulty variant: the close handler leaves the entries while a tool call
\* of the session waits for the collaborator.
OnCloseUnlessBusy(id) ==
    /\ id \in Minted
    /\ Events < MaxEvents
    /\ LET busy == \E r \in BagToSet(requests) : r.pc = "calling" /\ r.extra = id IN
         /\ transports' = IF busy THEN transports ELSE Delete(transports, id)
         /\ sessionApiKeys' = IF busy THEN sessionApiKeys ELSE Delete(sessionApiKeys, id)
    /\ serverTransport' = Undefined
    /\ closeCount' = [closeCount EXCEPT ![id] = @ + 1]
    /\ UNCHANGED <<sseLog, requests>>

\* res.on("close"), part_000:96-100, followed by the listener the transport
\* registered in start(): the server's onclose drops its transport.
OnClose(id) ==
    /\ id \in Minted
    /\ Events < MaxEvents
    /\ transports' = Delete(transports, id)
    /\ sessionApiKeys' = Delete(sessionApiKeys, id)
    /\ serverTransport' = Undefined
    /\ closeCount' = [closeCount EXCEPT ![id] = @ + 1]
    /\ UNCHANGED <<sseLog, requests>>

\* Fields of a request that are history, written once when the request is
\* received and read by no handler:
\*   former      the close handler of the session it names had run before
\*   registered  the session it names had a transports entry
\*   stored      the sessionApiKeys entry of the session it names
\*   resp        what the collaborator answered
\*   delivery    where the server wrote the handler's result: the sessionId
\*               of the stream, "dropped" when no stream took it, "none"
\*               before the handler returned and for a call made directly
\*   stale       the stream of the session a POST named had closed when the
\*               handler's result was sent
\* (the session a POST names is its sessionId parameter, the session a tool
\* call names is its extra.sessionId)
Requests == BagToSet(requests)
Posts == {r \in Requests : r.via = "POST"}
DirectCalls == {r \in Requests : r.via = "direct"}
AddRequest(r) == requests (+) SetToBag({r})
ReplaceRequest(r, s) == (requests (-) SetToBag({r})) (+) SetToBag({s})

\* The server sends the handler's result through a transport: nothing is
\* written when it has none (target undefined) or when the transport's
\* stream has closed (send throws, and the server catches it).
Send(target) ==
    IF target \in SessionIds /\ target \in DOMAIN transports THEN target ELSE "dropped"

\* The transport the result of r goes through when the handler returns after
\* its await: the one the server is connected to at that moment, or the one
\* it was connected to when it called the handler, depending on the release
\* of the SDK the server is built with.
Targets(r) ==
    IF r.via = "POST" THEN {serverTransport, r.extra} ELSE {Undefined}
Delivery(r, target) ==
    IF r.via = "POST" THEN Send(target) ELSE "none"

Stale(r) == r.via = "POST" /\ r.claimed \in SessionIds /\ closeCount[r.claimed] > 0

\* app.post("/messages"), part_000:105-114
PostMessages(claimed, query) ==
    /\ Events < MaxEvents
    /\ LET transport == GetTransport(transports, claimed)
           status == IF ~TruthyObject(transport) THEN "400"
                     ELSE IF IsTransport(transport) THEN "delegated"
                     ELSE "TypeError"   \* transport.handlePostMessage is not a function
       IN requests' = AddRequest(
              [via |-> "POST", claimed |-> claimed,
               former |-> (claimed \in SessionIds /\ closeCount[claimed] > 0),
               registered |-> (claimed \in DOMAIN transports),
               stored |-> OwnApiKey(sessionApiKeys, claimed),
               status |-> status,
               body |-> IF status = "400" THEN "No transport found for sessionId" ELSE "",
               handle |-> IF status = "delegated" THEN transport ELSE NoTransport,
               pc |-> IF status = "delegated" THEN "received" ELSE "none",
               extra |-> Undefined, query |-> query, apiKey |-> Undefined,
               collabCalls |-> 0, resp |-> NoResponse, result |-> NoResult,
               delivery |-> "none", stale |-> FALSE])
    /\ UNCHANGED <<transports, sessionApiKeys, serverTransport, sseLog, closeCount>>

\* Faulty variant: the handler's missing-key branch deletes the session's
\* credential entry.
ToolStartDropsEntry(r) ==
    /\ r \in BagToSet(requests)
    /\ r.pc = "received"
    /\ LET extra == serverTransport
           h == SearchWebStart(extra, sessionApiKeys)
       IN /\ requests' = (requests (-) SetToBag({r})) (+) SetToBag({
                 [r EXCEPT !.pc = h.pc, !.extra = extra, !.apiKey = h.apiKey,
                           !.collabCalls = h.collabCalls, !.result = h.result,
                           !.delivery = IF h.pc = "done" THEN Send(extra) ELSE "none",
                           !.stale = (h.pc = "done" /\ closeCount[r.claimed] > 0)]})
          /\ sessionApiKeys' = IF h.result = Envelope(NotConfiguredText)
                               THEN Delete(sessionApiKeys, extra)
                               ELSE sessionApiKeys
    /\ UNCHANGED <<transports, serverTransport, sseLog, closeCount>>

\* the message of a delegated POST reaches the server, which calls the tool
\* handler with extra.sessionId = the sessionId of the transport the server
\* is connected to (part_000:24)
ToolStart(r) ==
    /\ r \in Requests
    /\ r.pc = "received"
    /\ LET extra == serverTransport
           h == SearchWebStart(extra, sessionApiKeys)
       IN requests' = ReplaceRequest(r,
              [r EXCEPT !.pc = h.pc, !.extra = extra, !.apiKey = h.apiKey,
                        !.collabCalls = h.collabCalls, !.result = h.result,
                        !.delivery = IF h.pc = "done" THEN Send(extra) ELSE "none",
                        !.stale = (h.pc = "done" /\ Stale(r))])
    /\ UNCHANGED <<transports, sessionApiKeys, serverTransport, sseLog, closeCount>>

\* the tool handler called with a given extra.sessionId (the bridge contract
\* invoke(identity, query))
ToolCall(extra, query) ==
    /\ Events < MaxEvents
    /\ LET h == SearchWebStart(extra, sessionApiKeys)
       IN requests' = AddRequest(
              [via |-> "direct", claimed |-> Undefined,
               former |-> (extra \in SessionIds /\ closeCount[extra] > 0),
               registered |-> (extra \in DOMAIN transports),
               stored |-> OwnApiKey(sessionApiKeys, extra),
               status |-> "none", body |-> "", handle |-> NoTransport,
               pc |-> h.pc, extra |-> extra, query |-> query, apiKey |-> h.apiKey,
               collabCalls |-> h.collabCalls, resp |-> NoResponse, result |-> h.result,
               delivery |-> "none", stale |-> FALSE])
    /\ UNCHANGED <<transports, sessionApiKeys, serverTransport, sseLog, closeCount>>

\* Faulty variant: the handler reads sessionApiKeys again after the await.
CollaboratorReturnsRereads(r, resp) ==
    /\ r \in Requests
    /\ r.pc = "calling"
    /\ \E target \in {serverTransport, r.extra} :
          requests' = (requests (-) SetToBag({r})) (+) SetToBag({
              [r EXCEPT !.pc = "done", !.resp = resp,
                        !.apiKey = GetApiKey(sessionApiKeys, r.extra),
                        !.result = SearchWebResume(r.query, resp),
                        !.delivery = IF target \in DOMAIN transports
                                     THEN target ELSE "dropped",
                        !.stale = (r.via = "POST" /\ closeCount[r.claimed] > 0)]})
    /\ UNCHANGED <<transports, sessionApiKeys, serverTransport, sseLog, closeCount>>

\* axios.post settles, the handler runs to its return and the server sends
\* the result
CollaboratorReturns(r, resp) ==
    /\ r \in Requests
    /\ r.pc = "calling"
    /\ \E target \in Targets(r) :
          requests' = ReplaceRequest(r,
              [r EXCEPT !.pc = "done", !.resp = resp,
                        !.result = SearchWebResume(r.query, resp),
                        !.delivery = Delivery(r, target), !.stale = Stale(r)])
    /\ UNCHANGED <<transports, sessionApiKeys, serverTransport, sseLog, closeCount>>

\* the server as deployed: clients connect, post messages, disconnect
Next ==
    \/ \E id \in SessionIds, header \in ApiKeyHeaders : GetSse(id, header)
    \/ \E id \in SessionIds : OnClose(id)
    \/ \E claimed \in ClaimedSessionIds, query \in Queries : PostMessages(claimed, query)
    \/ \E r \in Requests : ToolStart(r)
    \/ \E r \in Requests, resp \in SettledResponses : CollaboratorReturns(r, resp)

Spec == Init /\ [][Next]_vars

\* the tool handler under any caller: channels come and go, and the handler
\* is invoked with any extra.sessionId
NextBridge ==
    \/ \E id \in SessionIds, header \in ApiKeyHeaders : GetSse(id, header)
    \/ \E id \in SessionIds : OnClose(id)
    \/ \E extra \in ExtraSessionIds, query \in Queries : ToolCall(extra, query)
    \/ \E r \in Requests, resp \in CollaboratorResponses : CollaboratorReturns(r, resp)

SpecBridge == Init /\ [][NextBridge]_vars

\* The registry operations under any identity generator: GET /sse is served
\* with a transport of any sessionId, also one that is registered.
GetSseAs(id, header) == Connect(id, header)

NextRegistry ==
    \/ \E id \in SessionIds, header \in ApiKeyHeaders : GetSseAs(id, header)
    \/ \E id \in SessionIds : OnClose(id)

SpecRegistry == Init /\ [][NextRegistry]_vars

\* the search_web handler of src/server.ts called with the process
\* environment holding envKey
EnvToolCall(envKey, query) ==
    /\ Events < MaxEvents
    /\ LET h == EnvSearchWebStart(envKey)
       IN requests' = AddRequest(
              [via |-> "env", claimed |-> Undefined, former |-> FALSE,
               registered |-> FALSE, stored |-> Absent,
               status |-> "none", body |-> "", handle |-> NoTransport,
               pc |-> h.pc, extra |-> Undefined, query |-> query, apiKey |-> h.apiKey,
               collabCalls |-> h.collabCalls, resp |-> NoResponse, result |-> h.result,
               delivery |-> "none", stale |-> FALSE])
    /\ UNCHANGED <<transports, sessionApiKeys, serverTransport, sseLog, closeCount>>

\* axios.post settles in the handler of src/server.ts
EnvCollaboratorReturns(r, resp) ==
    /\ r \in Requests
    /\ r.via = "env"
    /\ r.pc = "calling"
    /\ requests' = ReplaceRequest(r,
           [r EXCEPT !.pc = "done", !.resp = resp,
                     !.result = EnvSearchWebResume(r.query, resp)])
    /\ UNCHANGED <<transports, sessionApiKeys, serverTransport, sseLog, closeCount>>

\* the tool handler of src/server.ts under any caller
NextEnv ==
    \/ \E envKey \in EnvKeys, query \in Queries : EnvToolCall(envKey, query)
    \/ \E r \in Requests, resp \in CollaboratorResponses : EnvCollaboratorReturns(r, resp)

SpecEnv == Init /\ [][NextEnv]_vars

----------------------------------------------------------------------------
(* Properties                                                              *)

\* the sessions whose stream has not closed
OpenChannels == {id \in Minted : closeCount[id] = 0}
\* x-serper-api-key as the session's GET /sse carried it
SuppliedHeader(id) ==
    LET i == CHOOSE j \in DOMAIN sseLog : sseLog[j].sessionId = id IN sseLog[i].header
Unroutable(r) == r.status = "400" /\ r.body = "No transport found for sessionId"

\* C1: between handler steps, sessionApiKeys has as many entries as there
\* are open channels, and a sessionId has an entry in sessionApiKeys exactly
\* when it has one in transports.
C1_CoLifetime ==
    /\ Cardinality(DOMAIN sessionApiKeys) = Cardinality(OpenChannels)
    /\ \A id \in SessionIds : id \in DOMAIN sessionApiKeys <=> id \in DOMAIN transports

\* one channel open, another one connected and closed
C1_Witness ==
    /\ Cardinality(DOMAIN sessionApiKeys) = 1
    /\ \E id \in Minted : closeCount[id] > 0

\* C2: a POST /messages that names a session whose close handler has run is
\* answered 400 "No transport found for sessionId", whatever was in flight
\* for that session when it closed.
C2_ClosedIsUnroutable ==
    \A r \in Posts : r.former => Unroutable(r)

\* a POST refused after the close, while a tool call of an earlier POST to the
\* same session is still waiting for the collaborator
C2_Witness ==
    \E r \in Posts, f \in Posts :
        /\ r.former /\ Unroutable(r)
        /\ f.claimed = r.claimed /\ ~f.former /\ f.pc = "calling"

\* C3: a POST /messages is delegated exactly when its sessionId names a
\* registered session, and then to that session's transport; every other
\* sessionId is answered 400 "No transport found for sessionId".
C3_DelegatedIffRegistered ==
    \A r \in Posts :
        /\ r.status = "delegated" <=> r.registered
        /\ r.status = "delegated" => r.handle = Transport(r.claimed)
        /\ r.status # "delegated" => Unroutable(r) /\ r.handle = NoTransport

\* C4: the key a search_web call passes to the collaborator is the one the
\* session named by the originating POST supplied when it connected.
C4_SecretScoping ==
    \A r \in Posts :
        r.collabCalls > 0 => r.apiKey = SuppliedHeader(r.claimed)

\* C5: search_web for a registered session whose stored credential is empty
\* returns the configuration error and calls the collaborator zero times.
C5_EmptyCredential ==
    \A r \in DirectCalls :
        r.registered /\ r.stored = EmptyString =>
            /\ r.pc = "done"
            /\ r.result = Envelope(NotConfiguredText)
            /\ r.collabCalls = 0

\* a call for an open session that connected without the header
C5_Witness ==
    \E r \in DirectCalls :
        /\ r.registered /\ r.stored = EmptyString
        /\ SuppliedHeader(r.extra) = Undefined
        /\ r.result = Envelope(NotConfiguredText)

C7_CloseLeavesOthers ==
    [][\A a \in SessionIds : closeCount'[a] # closeCount[a] =>
          \A b \in SessionIds \ {a} :
              /\ OwnApiKey(sessionApiKeys', b) = OwnApiKey(sessionApiKeys, b)
              /\ b \in DOMAIN transports' <=> b \in DOMAIN transports
              /\ b \in DOMAIN transports =>
                    GetTransport(transports', b) = Transport(b)]_vars

\* a closed, b open with its key, and a POST for b delegated to b's transport
C7_Witness ==
    \E a \in SessionIds, b \in SessionIds :
        /\ a # b /\ closeCount[a] > 0
        /\ b \in DOMAIN transports /\ OwnApiKey(sessionApiKeys, b) = "k2"
        /\ \E r \in Posts : r.claimed = b /\ r.handle = Transport(b)

C9_CloseIdempotent ==
    [][\A id \in SessionIds :
          closeCount[id] >= 1 /\ closeCount'[id] > closeCount[id] =>
              /\ transports' = transports
              /\ sessionApiKeys' = sessionApiKeys]_vars

\* "close" delivered twice for one session while another one is open
C9_Witness ==
    \E id \in SessionIds :
        /\ closeCount[id] = 2
        /\ \E other \in DOMAIN transports : other # id

\* C10: a search_web call that finishes returns an envelope with one text
\* content item, on every branch.
C10_AlwaysEnvelope ==
    \A r \in Requests :
        r.pc = "done" =>
            /\ r.result.outcome = "returned"
            /\ Len(r.result.content) = 1
            /\ r.result.content[1].type = "text"

\* a call that finished on the collaborator-failure branch
C10_Witness ==
    \E r \in Requests :
        /\ r.pc = "done" /\ r.collabCalls = 1
        /\ r.result = Envelope(SearchFailedText)

\* C12: two search_web calls that differ only in the cause of the
\* collaborator's failure return the same result.
C12_GenericFailure ==
    \A r \in Requests, t \in Requests :
        /\ r.pc = "done" /\ t.pc = "done"
        /\ IsFailure(r.resp) /\ IsFailure(t.resp)
        /\ r.via = t.via /\ r.query = t.query /\ r.apiKey = t.apiKey
        => r.result = t.result

\* the latest GET /sse served with sessionId id
LatestConnect(id) ==
    CHOOSE j \in DOMAIN sseLog :
        /\ sseLog[j].sessionId = id
        /\ \A k \in DOMAIN sseLog : sseLog[k].sessionId = id => k <= j

C14_AbsentHeaderAccepted ==
    /\ \A j \in DOMAIN sseLog :
          sseLog[j].header = Undefined /\ closeCount[sseLog[j].sessionId] = 0 =>
              /\ sseLog[j].sessionId \in DOMAIN transports
              /\ sseLog[j].sessionId \in DOMAIN sessionApiKeys
              /\ sessionApiKeys[sseLog[j].sessionId] = EmptyString
    /\ \A r \in DirectCalls :
          r.extra \in Minted /\ r.registered /\ SuppliedHeader(r.extra) = Undefined =>
              /\ r.stored = EmptyString
              /\ r.result = Envelope(NotConfiguredText)
              /\ r.collabCalls = 0

\* a channel opened without the header after one opened with a key, and the
\* first call for it
C14_Witness ==
    /\ Len(sseLog) = 2
    /\ sseLog[1].header = "k1" /\ sseLog[2].header = Undefined
    /\ sseLog[2].sessionId \in DOMAIN transports
    /\ \E r \in DirectCalls :
          r.extra = sseLog[2].sessionId /\ r.result = Envelope(NotConfiguredText)

\* the calls whose axios.post was answered 2xx with organic an array or missing
Succeeded == {r \in Requests : r.pc = "done" /\ r.resp.kind = "2xx" /\ ~IsFailure(r.resp)}
ReportOf(r) == r.result.content[1].text
TitleLines(query) == <<"Search results for: " \o query, "">>
\* the n-th entry of a report, for the result item
EntryLines(item, n) ==
    <<ToString(n) \o ". " \o item.title, "   " \o item.link, "   " \o item.snippet, "">>
\* the lines of report text that are entries of items, from line `from` on
ListsInOrder(text, from, items) ==
    /\ Len(text) = from - 1 + 4 * Len(items)
    /\ \A i \in 1 .. Len(items) :
          SubSeq(text, from + 4 * (i - 1), from + 4 * i - 1) = EntryLines(items[i], i)

\* C15 as stated: the report of a call answered with zero results has a line
\* that is neither its title nor a heading (the statement that nothing was
\* found); the report of any other successful call lists one numbered entry
\* per result, in the collaborator's order.
C15_ZeroResultsStated ==
    \A r \in Succeeded :
        IF r.resp.items = <<>>
        THEN \E i \in DOMAIN ReportOf(r) :
                 ReportOf(r)[i] \notin {TitleLines(r.query)[1], "", "Web Results:"}
        ELSE /\ SubSeq(ReportOf(r), 1, 3) = TitleLines(r.query) \o <<"Web Results:">>
             /\ ListsInOrder(ReportOf(r), 4, r.resp.items)

\* C15 as amended: the report of a call answered with zero results is its
\* title alone when organic is missing, and the title followed by the
\* "Web Results:" heading when organic is an empty list (the title alone in
\* src/server.ts); nothing in it says that no results were found.  The
\* report of any other successful call is the title, the heading and one
\* numbered entry per result, in the collaborator's order.
C15_ZeroResultsHeadingOnly ==
    /\ \A r \in Succeeded :
          /\ r.result.outcome = "returned"
          /\ IF r.resp.organic = "missing"
             THEN ReportOf(r) = TitleLines(r.query)
             ELSE /\ SubSeq(ReportOf(r), 1, 3) = TitleLines(r.query) \o <<"Web Results:">>
                  /\ ListsInOrder(ReportOf(r), 4, r.resp.items)
    /\ \A resp \in CollaboratorResponses, query \in Queries :
          ~IsFailure(resp) =>
              IF resp.items = <<>>
              THEN EnvResultText(query, resp) = TitleLines(query)
              ELSE /\ SubSeq(EnvResultText(query, resp), 1, 3) =
                         TitleLines(query) \o <<"Web Results:">>
                   /\ ListsInOrder(EnvResultText(query, resp), 4, resp.items)

\* one call answered with an empty list, one answered with two results
C15_Witness ==
    \E r \in Succeeded, t \in Succeeded :
        /\ r.resp.organic = "array" /\ r.resp.items = <<>>
        /\ ReportOf(r) = <<"Search results for: q", "", "Web Results:">>
        /\ t.resp.items = <<ResultB, ResultA>>
        /\ Len(ReportOf(t)) = 11

\* the calls that passed a key to the collaborator
Called == {r \in Requests : r.collabCalls > 0}
\* r as it is once its axios.post settled with resp and its result was sent
\* through target
Completed(r, resp, target) ==
    [r EXCEPT !.pc = "done", !.resp = resp, !.result = SearchWebResume(r.query, resp),
              !.delivery = Delivery(r, target), !.stale = Stale(r)]

\* C16: the key a call passes to the collaborator is the one stored for the
\* session the handler was given, read before the call; a step taken while
\* the call is in flight, the session's close handler included, leaves the
\* call in flight or completes it with that same key and a returned result;
\* and a POST received after the close is answered 400.
C16_CredentialSnapshot ==
    [][
        /\ \A r \in Called' :
              /\ r.extra \in Minted'
              /\ r.apiKey = SuppliedHeader(r.extra)'
        /\ \A r \in Requests :
              r.pc = "calling" =>
                  \/ CopiesIn(r, requests') >= CopiesIn(r, requests)
                  \/ \E resp \in CollaboratorResponses, target \in Targets(r) :
                         /\ Completed(r, resp, target) \in Requests'
                         /\ Completed(r, resp, target).result.outcome = "returned"
        /\ \A f \in Posts' : f.former => Unroutable(f)
    ]_vars

\* a call in flight whose session closed, and a POST for that session
\* refused afterwards
C16_Witness ==
    \E r \in Called, f \in Posts :
        /\ r.pc = "calling" /\ ~r.former
        /\ closeCount[r.extra] > 0 /\ r.extra \notin DOMAIN sessionApiKeys
        /\ r.apiKey = "k1"
        /\ f.claimed = r.extra /\ f.former /\ Unroutable(f)

\* C17: whenever a handler can run, a sessionId that no GET /sse has minted
\* has no entry and no close delivered; a minted one whose stream is open
\* has its transports entry and its sessionApiKeys entry, the sessionId the
\* server announces among them; and every POST that was delegated found both
\* entries.
C17_ConnectBeforeUse ==
    /\ \A id \in SessionIds \ Minted :
          /\ id \notin DOMAIN transports \cup DOMAIN sessionApiKeys
          /\ closeCount[id] = 0
    /\ \A id \in OpenChannels :
          id \in DOMAIN transports /\ id \in DOMAIN sessionApiKeys
    /\ serverTransport \in SessionIds =>
          serverTransport \in DOMAIN transports \cap DOMAIN sessionApiKeys
    /\ \A r \in Posts :
          r.claimed \in SessionIds /\ r.status = "delegated" =>
              r.claimed \in Minted /\ r.registered /\ r.stored # Absent

\* a POST delegated for a session that connected without the header, which
\* was closed afterwards
C17_Witness ==
    \E r \in Posts :
        /\ r.status = "delegated" /\ r.stored = EmptyString
        /\ closeCount[r.claimed] = 1
        /\ serverTransport \in SessionIds

\* C18: the step that delivers "close" for a session removes its transports
\* entry and its sessionApiKeys entry together, whatever is in flight, and
\* from then on the session has no entry in either.
C18_CleanupOnClose ==
    [][\A id \in SessionIds :
          /\ closeCount'[id] > closeCount[id] =>
                 id \notin DOMAIN transports' \cup DOMAIN sessionApiKeys'
          /\ closeCount[id] > 0 =>
                 id \notin DOMAIN transports' \cup DOMAIN sessionApiKeys']_vars

\* a session closed while its tool call waits for the collaborator, another
\* session still open
C18_Witness ==
    \E id \in SessionIds, r \in Requests :
        /\ closeCount[id] = 1
        /\ r.pc = "calling" /\ r.extra = id
        /\ id \notin DOMAIN transports \cup DOMAIN sessionApiKeys
        /\ DOMAIN transports # {}

\* C20: an entry appears in transports or sessionApiKeys only in the step of
\* a GET /sse, for the session it mints, and disappears only in the step of
\* that session's close; a stored credential never changes; and the steps of
\* POST /messages and of search_web change neither object.
C20_OnlyConnectAndCloseWrite ==
    [][
        /\ \A id \in DOMAIN transports' \ DOMAIN transports :
              Len(sseLog') = Len(sseLog) + 1 /\ sseLog'[Len(sseLog')].sessionId = id
        /\ \A id \in DOMAIN sessionApiKeys' \ DOMAIN sessionApiKeys :
              Len(sseLog') = Len(sseLog) + 1 /\ sseLog'[Len(sseLog')].sessionId = id
        /\ \A id \in (DOMAIN transports \ DOMAIN transports')
                      \cup (DOMAIN sessionApiKeys \ DOMAIN sessionApiKeys') :
              closeCount'[id] = closeCount[id] + 1
        /\ \A id \in DOMAIN sessionApiKeys \cap DOMAIN sessionApiKeys' :
              sessionApiKeys'[id] = sessionApiKeys[id]
        /\ \A id \in DOMAIN transports \cap DOMAIN transports' :
              transports'[id] = transports[id]
        /\ requests' # requests =>
              transports' = transports /\ sessionApiKeys' = sessionApiKeys
    ]_vars

\* an open session that connected without the header, after a refused POST,
\* a delegated POST and a search_web call that reported the missing key
C20_Witness ==
    \E id \in DOMAIN sessionApiKeys, r \in Posts, u \in Posts :
        /\ sessionApiKeys[id] = EmptyString /\ id \in DOMAIN transports
        /\ r.pc = "done" /\ r.extra = id /\ r.result = Envelope(NotConfiguredText)
        /\ Unroutable(u)

\* the POSTs handed to the transport of a session: the invocations accepted
\* from the agent of that session
Accepted == {r \in Posts : r.status = "delegated" /\ r.claimed \in SessionIds}

\* C11: every invocation accepted from an agent ends with a returned text
\* result that is written to that agent's stream; none ends with its result
\* dropped or written to another stream.
C11_AnsweredToItsAgent ==
    \A r \in Accepted :
        r.pc = "done" =>
            /\ r.result.outcome = "returned"
            /\ r.delivery = r.claimed

\* the accepted requests whose session's stream closed before their result
\* was written to it
StaleRace == {r \in Accepted : closeCount[r.claimed] > 0 /\ (r.pc = "done" => r.stale)}

\* C19: when a session's stream closes while its request is in flight, the
\* request still returns a result, which is written to no other session's
\* stream; and a request of another session, one that is still open, is
\* handled for a session, not reported as having no session ID.
C19_StaleHandleConfined ==
    /\ \A r \in StaleRace :
          r.pc = "done" =>
              /\ r.result.outcome = "returned"
              /\ r.delivery = "dropped"
    /\ \A r \in StaleRace, u \in Accepted :
          /\ u.claimed # r.claimed /\ closeCount[u.claimed] = 0
          /\ u.pc \in {"calling", "done"}
          => /\ u.extra # Undefined
             /\ u.result # Envelope(MissingSessionText)

====
